---------------------------- MODULE Spec2Model ----------------------------
(***************************************************************************)
(* Model of reverse_api: the cost accountant (pricing.calculate_cost) and  *)
(* the sync lifecycle of BaseEngineer (start_sync / stop_sync /            *)
(* get_sync_status) together with the collaborators it drives: the         *)
(* workspace allocator get_available_directory and FileSyncWatcher.        *)
(***************************************************************************)
EXTENDS Integers, Sequences, FiniteSets, TLC

(***************************************************************************)
(* Bounds of the model.                                                    *)
(***************************************************************************)
\* token counts range over 0..MaxTokens in each usage category
MaxTokens == 2
\* candidates base_name, base_name-2, ..., base_name-MaxSuffix are probed
MaxSuffix == 2
\* a directory's content is 0 (empty) or one of 1..MaxContent
MaxContent == 2
\* watchers one controller constructs
MaxWatchers == 2
\* sync passes one watcher runs
MaxPasses == 2
\* events counted in one burst (the count saturates)
MaxBurst == 2
\* milliseconds the clock advances in one step
TickMs == 250

(***************************************************************************)
(* pricing.py                                                              *)
(*                                                                         *)
(* Rates are USD per million tokens.  They are kept as integers in units   *)
(* of 10^-5 USD (3.00 is 300000, 0.00015 is 15), so a cost is an integer   *)
(* in units of 10^-11 USD: tokens / 1_000_000 * rate is tokens * rate over *)
(* 10^11.                                                                  *)
(***************************************************************************)
Categories == <<"input", "output", "cache_creation", "cache_read", "reasoning">>

MODEL_PRICING ==
    [ m \in { "claude-sonnet-4-5", "claude-opus-4-5", "claude-haiku-4-5",
              "google-gemini-3-flash", "google-gemini-3-pro" } |->
        CASE m = "claude-sonnet-4-5" ->
               [input |-> 300000, output |-> 1500000, cache_creation |-> 375000,
                cache_read |-> 30000, reasoning |-> 1500000]
          [] m = "claude-opus-4-5" ->
               [input |-> 1500000, output |-> 7500000, cache_creation |-> 1875000,
                cache_read |-> 150000, reasoning |-> 7500000]
          [] m = "claude-haiku-4-5" ->
               [input |-> 100000, output |-> 500000, cache_creation |-> 125000,
                cache_read |-> 10000, reasoning |-> 500000]
          [] m = "google-gemini-3-flash" ->
               [input |-> 15, output |-> 60]
          [] m = "google-gemini-3-pro" ->
               [input |-> 30, output |-> 120] ]

\* the key whose entry dict.get falls back to
FallbackModel == "claude-sonnet-4-5"

\* Python's None as a model identifier
NoneId == "<None>"

\* identifiers passed to calculate_cost: the table's keys, an unknown one, None
ModelIds == DOMAIN MODEL_PRICING \cup {"gpt-4o", NoneId}

\* a lookup that falls back to another entry
LookupWrongDefault(model_id) ==
    IF model_id \in DOMAIN MODEL_PRICING
      THEN MODEL_PRICING[model_id]
      ELSE MODEL_PRICING["claude-haiku-4-5"]

\* MODEL_PRICING.get(model_id, MODEL_PRICING["claude-sonnet-4-5"])
Lookup(model_id) ==
    IF model_id \in DOMAIN MODEL_PRICING
      THEN MODEL_PRICING[model_id]
      ELSE MODEL_PRICING[FallbackModel]

\* the five subscriptions pricing["..."] in evaluation order; the first one
\* whose key is missing raises KeyError
MissingKeys(pricing) ==
    { i \in 1..Len(Categories) : Categories[i] \notin DOMAIN pricing }

FirstMissing(pricing) ==
    CHOOSE i \in MissingKeys(pricing) : \A j \in MissingKeys(pricing) : i <= j

RECURSIVE SumTerms(_, _, _)
SumTerms(pricing, usage, i) ==
    IF i = 0 THEN 0
    ELSE SumTerms(pricing, usage, i - 1) + usage[i] * pricing[Categories[i]]

\* calculate_cost(model_id, input_tokens, ..., reasoning_tokens); usage is the
\* tuple of the five token counts in the order of Categories
calculate_cost(model_id, usage) ==
    LET pricing == Lookup(model_id) IN
      IF MissingKeys(pricing) # {}
        THEN [kind |-> "KeyError", cost |-> 0,
              key |-> Categories[FirstMissing(pricing)]]
        ELSE [kind |-> "return", key |-> "",
              cost |-> SumTerms(pricing, usage, Len(Categories))]

VARIABLES
    model_id, usage, result,      \* calculate_cost: arguments and outcome
    enable_sync,                  \* BaseEngineer.enable_sync
    sync_watcher,                 \* BaseEngineer.sync_watcher: None or a watcher
    local_scripts_dir,            \* BaseEngineer.local_scripts_dir: None or a directory
    watchers,                     \* every FileSyncWatcher constructed so far
    fs,                           \* the candidate directories under cwd/scripts
    source,                       \* content of scripts_dir, the watchers' source
    ui,                           \* notifications the last step sent to ClaudeUI
    last                          \* the last step: operation, outcome, injected fault

costVars == <<model_id, usage, result>>
ctlVars == <<enable_sync, sync_watcher, local_scripts_dir, watchers, fs, source,
             ui, last>>
vars == <<model_id, usage, result, enable_sync, sync_watcher, local_scripts_dir,
          watchers, fs, source, ui, last>>

NoResult == [kind |-> "none", cost |-> 0, key |-> ""]

UsageRecords == [1..5 -> 0..MaxTokens]

(***************************************************************************)
(* base_engineer.py and its collaborators                                  *)
(***************************************************************************)
\* Python's None for sync_watcher and local_scripts_dir; watchers and
\* directories are numbered from 1
None == 0

\* debounce_ms=500 passed to FileSyncWatcher
debounce_ms == 500

Min(a, b) == IF a <= b THEN a ELSE b
Max(a, b) == IF a >= b THEN a ELSE b

\* candidate k is scripts/base_name for k = 1 and scripts/base_name-k above
Candidates == 1..MaxSuffix

NoDir == [exists |-> FALSE, content |-> 0]
EmptyDir == [exists |-> TRUE, content |-> 0]
DirStates == {NoDir} \cup [exists : {TRUE}, content : 0..MaxContent]

\* a candidate that may be handed out: nonexistent or empty
Free(f, k) == ~f[k].exists \/ f[k].content = 0

\* get_available_directory(parent, base_name) on directory state f: the first
\* free candidate in increasing order, created if missing; resource exhaustion
\* when none of the MaxSuffix candidates is free
get_available_directory(f) ==
    LET free == { k \in Candidates : Free(f, k) } IN
      IF free = {}
        THEN [raised |-> TRUE, dir |-> None, fs |-> f]
        ELSE LET k == CHOOSE c \in free : \A d \in free : c <= d IN
               [raised |-> FALSE, dir |-> k, fs |-> [f EXCEPT ![k] = EmptyDir]]

\* local_dir = scripts_base_path / base_name with no probing
LocalDirNoProbe(f) ==
    [raised |-> FALSE, dir |-> 1,
     fs |-> [f EXCEPT ![1] = [exists |-> TRUE, content |-> f[1].content]]]

\* local_dir = get_available_directory(scripts_base_path, base_name)
LocalDir(f) == get_available_directory(f)

\* FileSyncWatcher(source_dir, dest_dir, on_sync, on_error, debounce_ms): idle
FileSyncWatcher(dest, debounce) ==
    [state |-> "idle", dest |-> dest, debounce_ms |-> debounce,
     armed |-> FALSE, timer |-> 0,
     quiet |-> debounce_ms, burst_len |-> 0, burst_log |-> <<>>,
     sync_count |-> 0, error_count |-> 0]

\* a watcher constructed with no debounce interval
new_watcher_no_debounce(dest) == FileSyncWatcher(dest, 0)

\* self.sync_watcher = FileSyncWatcher(source_dir=self.scripts_dir,
\*     dest_dir=local_dir, on_sync=on_sync, on_error=on_error, debounce_ms=500)
new_watcher(dest) == FileSyncWatcher(dest, debounce_ms)

\* FileSyncWatcher.start(): idle -> running
WatcherStart(w) == [w EXCEPT !.state = "running"]

\* FileSyncWatcher.stop(): running -> stopped, the timer cancelled; a no-op on a
\* watcher that is not running
WatcherStop(w) ==
    IF w.state = "running"
      THEN [w EXCEPT !.state = "stopped", !.armed = FALSE, !.timer = 0]
      ELSE w

\* what stop() can do besides stopping: finish cleanly, report a teardown error
\* through its error callback, or let an exception escape
StopOutcomes == {"ok", "reported", "raised"}

NoStatus == [state |-> "none", dest |-> None, sync_count |-> 0, error_count |-> 0]

\* FileSyncWatcher.get_status(): a snapshot
get_status(w) ==
    [state |-> w.state, dest |-> w.dest, sync_count |-> w.sync_count,
     error_count |-> w.error_count]

\* on_sync(message): self.ui.sync_flash(message)
on_sync == <<"sync_flash">>

\* an on_error wired to the success slot
on_error_flash == <<"sync_flash">>

\* on_error(message): self.ui.sync_error(message)
on_error == <<"sync_error">>

Step(op, out, fault, status) ==
    [op |-> op, out |-> out, fault |-> fault, status |-> status]

Running(i) == watchers[i].state = "running"

(***************************************************************************)
(* BaseEngineer.start_sync                                                 *)
(***************************************************************************)
\* a start_sync that does not look at enable_sync
start_sync_always == FALSE

\* if not self.enable_sync: return
start_sync_skips == ~enable_sync

\* the early return: nothing is touched
start_sync_disabled ==
    /\ start_sync_skips
    /\ ui' = <<>>
    /\ last' = Step("start_sync", "returned", "none", NoStatus)
    /\ UNCHANGED <<sync_watcher, local_scripts_dir, watchers, fs, source>>

\* a start_sync that catches the allocator's failure and carries on without a
\* destination
start_sync_swallows ==
    /\ ~start_sync_skips
    /\ LocalDir(fs).raised
    /\ local_scripts_dir' = None
    /\ ui' = <<>>
    /\ last' = Step("start_sync", "returned", "exhausted", NoStatus)
    /\ UNCHANGED <<sync_watcher, watchers, fs, source>>

\* get_available_directory raises: the exception leaves start_sync before any
\* assignment
start_sync_raises ==
    /\ ~start_sync_skips
    /\ LocalDir(fs).raised
    /\ ui' = <<>>
    /\ last' = Step("start_sync", "raised", "exhausted", NoStatus)
    /\ UNCHANGED <<sync_watcher, local_scripts_dir, watchers, fs, source>>

\* the allocator returns local_dir: record it, construct the watcher on it,
\* start it, notify sync_started
start_sync_starts ==
    /\ ~start_sync_skips
    /\ ~LocalDir(fs).raised
    /\ Len(watchers) < MaxWatchers
    /\ fs' = LocalDir(fs).fs
    /\ local_scripts_dir' = LocalDir(fs).dir
    /\ watchers' = Append(watchers, WatcherStart(new_watcher(LocalDir(fs).dir)))
    /\ sync_watcher' = Len(watchers) + 1
    /\ ui' = <<"sync_started">>
    /\ last' = Step("start_sync", "returned", "none", NoStatus)
    /\ UNCHANGED source

start_sync ==
    /\ \/ start_sync_disabled
       \/ start_sync_raises
       \/ start_sync_starts
    /\ UNCHANGED <<costVars, enable_sync>>

(***************************************************************************)
(* BaseEngineer.stop_sync                                                  *)
(***************************************************************************)
\* self.sync_watcher = None placed in the try body, after stop(), instead of
\* in the finally clause
reference_after_stop_no_finally(outcome) ==
    IF outcome = "raised" THEN sync_watcher ELSE None

\* finally: self.sync_watcher = None
reference_after_stop(outcome) == None

\* what reaches the sync-error slot: stop()'s own report through on_error, or
\* the except clause's self.ui.sync_error(...)
stop_sync_notifications(outcome) ==
    IF outcome = "ok" THEN <<>> ELSE on_error

\* the held watcher is dropped without self.sync_watcher.stop()
stop_sync_held_no_stop ==
    /\ sync_watcher # None
    /\ sync_watcher' = None
    /\ ui' = <<>>
    /\ last' = Step("stop_sync", "returned", "ok", NoStatus)
    /\ UNCHANGED <<local_scripts_dir, watchers, fs, source>>

\* if self.sync_watcher: try stop() / except Exception: sync_error / finally
stop_sync_held ==
    /\ sync_watcher # None
    /\ \E outcome \in StopOutcomes :
         /\ watchers' = [watchers EXCEPT
                           ![sync_watcher] = WatcherStop(watchers[sync_watcher])]
         /\ sync_watcher' = reference_after_stop(outcome)
         /\ ui' = stop_sync_notifications(outcome)
         /\ last' = Step("stop_sync", "returned", outcome, NoStatus)
    /\ UNCHANGED <<local_scripts_dir, fs, source>>

\* no watcher is held: the if is false and nothing runs
stop_sync_idle ==
    /\ sync_watcher = None
    /\ ui' = <<>>
    /\ last' = Step("stop_sync", "returned", "none", NoStatus)
    /\ UNCHANGED <<sync_watcher, local_scripts_dir, watchers, fs, source>>

stop_sync ==
    /\ \/ stop_sync_held
       \/ stop_sync_idle
    /\ UNCHANGED <<costVars, enable_sync>>

(***************************************************************************)
(* BaseEngineer.get_sync_status                                            *)
(***************************************************************************)
sync_status ==
    IF sync_watcher # None THEN get_status(watchers[sync_watcher]) ELSE NoStatus

get_sync_status ==
    /\ ui' = <<>>
    /\ last' = Step("get_sync_status", "returned", "none", sync_status)
    /\ UNCHANGED <<costVars, enable_sync, sync_watcher, local_scripts_dir,
                   watchers, fs, source>>

(***************************************************************************)
(* The environment: files written into a candidate directory from outside  *)
(* (a directory no running watcher mirrors into).                          *)
(***************************************************************************)
Mirrored(k) == \E i \in 1..Len(watchers) : Running(i) /\ watchers[i].dest = k

Populate ==
    /\ \E k \in Candidates, c \in 1..MaxContent :
         /\ fs[k].exists
         /\ fs[k].content # c
         /\ ~Mirrored(k)
         /\ fs' = [fs EXCEPT ![k] = [exists |-> TRUE, content |-> c]]
    /\ ui' = <<>>
    /\ last' = Step("populate", "returned", "none", NoStatus)
    /\ UNCHANGED <<costVars, enable_sync, sync_watcher, local_scripts_dir,
                   watchers, source>>

(***************************************************************************)
(* FileSyncWatcher at work.  Every running watcher observes scripts_dir.   *)
(* Besides the watcher's own fields (armed, timer, the two counters) each  *)
(* record keeps the bookkeeping the burst properties are stated over:      *)
(* quiet, the time since the last event it observed (capped at the         *)
(* controller's debounce_ms); burst_len, the events of the current burst   *)
(* (events less than debounce_ms apart); burst_log, the passes run since   *)
(* the burst began.                                                        *)
(***************************************************************************)
Expired(w) == w.state = "running" /\ w.armed /\ w.timer = 0

\* a qualifying filesystem event: the debounce timer is (re-)armed
Observe(w) ==
    LET fresh == w.quiet >= debounce_ms IN
      [w EXCEPT !.armed = TRUE, !.timer = w.debounce_ms, !.quiet = 0,
                !.burst_len = IF fresh THEN 1 ELSE Min(w.burst_len + 1, MaxBurst),
                !.burst_log = IF fresh THEN <<>> ELSE w.burst_log]

\* TickMs milliseconds pass
Advance(w) ==
    [w EXCEPT !.quiet = Min(w.quiet + TickMs, debounce_ms),
              !.timer = IF w.armed THEN Max(w.timer - TickMs, 0) ELSE w.timer]

Logged(w, what) ==
    IF Len(w.burst_log) < 2 THEN Append(w.burst_log, what) ELSE w.burst_log

\* a pass that copied the source: counted, and on_sync told
PassDone(w) ==
    [w EXCEPT !.armed = FALSE, !.sync_count = w.sync_count + 1,
              !.burst_log = Logged(w, "synced")]

\* a pass that hit an I/O error: counted, on_error told, still running
PassFailed(w) ==
    [w EXCEPT !.armed = FALSE, !.error_count = w.error_count + 1,
              !.burst_log = Logged(w, "failed")]

\* the agent writes into scripts_dir; every running watcher sees the event
Event ==
    /\ \A i \in 1..Len(watchers) :
         /\ ~Expired(watchers[i])
         /\ Running(i) =>
              watchers[i].sync_count + watchers[i].error_count < MaxPasses
    /\ \E c \in 1..MaxContent :
         /\ c # source
         /\ source' = c
    /\ watchers' = [i \in 1..Len(watchers) |->
                      IF Running(i) THEN Observe(watchers[i]) ELSE watchers[i]]
    /\ ui' = <<>>
    /\ last' = Step("event", "returned", "none", NoStatus)
    /\ UNCHANGED <<costVars, enable_sync, sync_watcher, local_scripts_dir, fs>>

\* time passes; an expired timer fires before the clock moves on
Tick ==
    /\ \A i \in 1..Len(watchers) : ~Expired(watchers[i])
    /\ \E i \in 1..Len(watchers) :
         Running(i) /\ (watchers[i].armed \/ watchers[i].quiet < debounce_ms)
    /\ watchers' = [i \in 1..Len(watchers) |->
                      IF Running(i) THEN Advance(watchers[i]) ELSE watchers[i]]
    /\ ui' = <<>>
    /\ last' = Step("tick", "returned", "none", NoStatus)
    /\ UNCHANGED <<costVars, enable_sync, sync_watcher, local_scripts_dir, fs,
                   source>>

\* the debounce timer of watcher i elapses: one sync pass, which mirrors the
\* source into the destination or fails on an I/O error
TimerFire ==
    /\ \E i \in 1..Len(watchers) :
         /\ Expired(watchers[i])
         /\ \/ /\ watchers' = [watchers EXCEPT ![i] = PassDone(watchers[i])]
               /\ fs' = [fs EXCEPT ![watchers[i].dest] =
                                     [exists |-> TRUE, content |-> source]]
               /\ ui' = on_sync
               /\ last' = Step("pass", "returned", "none", NoStatus)
            \/ /\ watchers' = [watchers EXCEPT ![i] = PassFailed(watchers[i])]
               /\ fs' = fs
               /\ ui' = on_error
               /\ last' = Step("pass", "returned", "io_error", NoStatus)
    /\ UNCHANGED <<costVars, enable_sync, sync_watcher, local_scripts_dir, source>>

(***************************************************************************)
(* Specifications                                                          *)
(***************************************************************************)
InitCostIdle ==
    /\ model_id = NoneId
    /\ usage = [i \in 1..5 |-> 0]
    /\ result = NoResult

\* BaseEngineer.__init__
InitController ==
    /\ sync_watcher = None
    /\ local_scripts_dir = None
    /\ watchers = <<>>
    /\ source = 0
    /\ ui = <<>>
    /\ last = Step("init", "returned", "none", NoStatus)

\* a controller after construction, over any state of the parent directory
Init ==
    /\ InitCostIdle
    /\ InitController
    /\ enable_sync \in BOOLEAN
    /\ fs \in [Candidates -> DirStates]

Next ==
    \/ start_sync
    \/ stop_sync
    \/ get_sync_status
    \/ Populate

Spec == Init /\ [][Next]_vars

\* one run with sync enabled in a fresh parent directory: start_sync once,
\* the watcher at work, stop_sync
InitSync ==
    /\ InitCostIdle
    /\ InitController
    /\ enable_sync = TRUE
    /\ fs = [k \in Candidates |-> NoDir]

NextSync ==
    \/ watchers = <<>> /\ start_sync
    \/ stop_sync
    \/ get_sync_status
    \/ Event
    \/ Tick
    \/ TimerFire

SpecSync == InitSync /\ [][NextSync]_vars

\* the cost accountant alone: one call on any arguments
InitCost ==
    /\ model_id \in ModelIds
    /\ usage \in UsageRecords
    /\ result = NoResult
    /\ InitController
    /\ enable_sync = FALSE
    /\ fs = [k \in Candidates |-> NoDir]

Calculate ==
    /\ result = NoResult
    /\ result' = calculate_cost(model_id, usage)
    /\ UNCHANGED <<model_id, usage, ctlVars>>

NextCost == Calculate

SpecCost == InitCost /\ [][NextCost]_vars

(***************************************************************************)
(* Properties                                                              *)
(***************************************************************************)
Sent(slot) == \E n \in 1..Len(ui) : ui[n] = slot

Watchers == 1..Len(watchers)

RunningSet == { i \in Watchers : Running(i) }

Called(op) == last'.op = op

\* C1: stop_sync always returns to its caller.  With a watcher held it calls
\* the watcher's stop(), a teardown error (reported by the watcher or raised by
\* it) reaches the sync-error slot, and the reference is None afterwards
\* whether or not stop() raised.  With no watcher held (a second stop_sync in
\* a row included) nothing changes, nothing is stopped, nothing is notified.
C1_StopSyncNeverPropagates ==
    [][Called("stop_sync") =>
         /\ last'.out = "returned"
         /\ sync_watcher' = None
         /\ sync_watcher # None =>
              /\ watchers'[sync_watcher].state = "stopped"
              /\ \A i \in Watchers \ {sync_watcher} : watchers'[i] = watchers[i]
              /\ last'.fault \in {"reported", "raised"} => Sent("sync_error")'
              /\ last'.fault = "ok" => ui' = <<>>
         /\ sync_watcher = None =>
              /\ UNCHANGED <<enable_sync, local_scripts_dir, watchers, fs, source>>
              /\ ui' = <<>>]_vars

\* C1 witness: a stop_sync whose watcher raised in stop(): the error was
\* forwarded and the reference is cleared
C1_Witness ==
    /\ last.op = "stop_sync"
    /\ last.fault = "raised"
    /\ ui = <<"sync_error">>
    /\ sync_watcher = None
    /\ \E i \in Watchers : watchers[i].state = "stopped"

\* C5 as stated: at every point at most one watcher started by the controller
\* is running, and a running watcher is the one the controller references.
C5_AtMostOneLive ==
    /\ Cardinality(RunningSet) <= 1
    /\ \A i \in RunningSet : i = sync_watcher

\* C5 amended: the same, over every sequence of calls in which start_sync is
\* not called while the controller still holds a watcher: it holds after
\* construction and every step other than such a start_sync keeps it.
C5_AtMostOneLiveWhenStoppedFirst ==
    /\ C5_AtMostOneLive
    /\ [][(C5_AtMostOneLive /\ ~(Called("start_sync") /\ sync_watcher # None))
            => C5_AtMostOneLive']_vars

\* C5 witness: start, stop, start: the first watcher is stopped, the second is
\* running and is the one referenced
C5_Witness ==
    /\ Len(watchers) = 2
    /\ watchers[1].state = "stopped"
    /\ Running(2)
    /\ sync_watcher = 2
    /\ C5_AtMostOneLive

\* C6: with enable_sync false, start_sync returns having touched nothing: no
\* directory created, no watcher constructed or started, nothing notified,
\* sync_watcher and local_scripts_dir as before.  So no watcher is ever held
\* and get_sync_status returns None.
C6_DisabledStartIsNoOp ==
    [][~enable_sync =>
         /\ Called("start_sync") =>
              /\ last'.out = "returned"
              /\ ui' = <<>>
              /\ UNCHANGED <<sync_watcher, local_scripts_dir, watchers, fs, source>>
         /\ sync_watcher' = None
         /\ watchers' = <<>>
         /\ Called("get_sync_status") => last'.status = NoStatus]_vars

\* C6 witness: start_sync was called with sync disabled on a parent directory
\* whose base candidate does not exist
C6_Witness ==
    /\ ~enable_sync
    /\ last.op = "start_sync"
    /\ ~fs[1].exists
    /\ local_scripts_dir = None

\* C7: the directory start_sync obtains from get_available_directory was
\* nonexistent or empty when it was called, is the first such candidate in
\* the order base_name, base_name-2, ..., exists and is empty on return, and
\* no other directory changed; a failed allocation changes no directory.  A
\* populated directory is therefore never handed out.
C7_NeverReusesPopulated ==
    [][(Called("start_sync") /\ enable_sync) =>
         /\ last'.out = "returned" =>
              /\ local_scripts_dir' \in Candidates
              /\ Free(fs, local_scripts_dir')
              /\ \A k \in Candidates : k < local_scripts_dir' => ~Free(fs, k)
              /\ fs'[local_scripts_dir'] = EmptyDir
              /\ \A k \in Candidates : k # local_scripts_dir' => fs'[k] = fs[k]
              /\ watchers'[sync_watcher'].dest = local_scripts_dir'
         /\ last'.out = "raised" => fs' = fs]_vars

\* C7 witness: the base candidate is populated and start_sync was handed the
\* empty base_name-2
C7_Witness ==
    /\ last.op = "start_sync"
    /\ last.out = "returned"
    /\ fs[1].content > 0
    /\ local_scripts_dir = 2
    /\ fs[2] = EmptyDir

\* C10: with sync enabled and no free candidate, start_sync raises to its
\* caller: no watcher is constructed or started, nothing is notified, and
\* sync_watcher and local_scripts_dir keep their values.
C10_AllocatorFailureSurfaces ==
    [][(Called("start_sync") /\ enable_sync
          /\ \A k \in Candidates : ~Free(fs, k)) =>
         /\ last'.out = "raised"
         /\ ui' = <<>>
         /\ UNCHANGED <<sync_watcher, local_scripts_dir, watchers, fs>>]_vars

\* C10 witness: start_sync raised on a parent directory with every candidate
\* populated
C10_Witness ==
    /\ last.op = "start_sync"
    /\ last.out = "raised"
    /\ \A k \in Candidates : fs[k].content > 0
    /\ sync_watcher = None

\* the watcher whose pass this step ran
Passed(i) ==
    \/ watchers'[i].sync_count # watchers[i].sync_count
    \/ watchers'[i].error_count # watchers[i].error_count

\* C8: every event arms the timer of each running watcher afresh with
\* debounce_ms; a pass runs only when debounce_ms have passed since the last
\* event, so never inside a burst; a burst gets at most one pass; once the
\* burst is over and its pass has run, exactly one pass is logged for it, and
\* unless that pass hit an I/O error the destination holds the source as the
\* last event left it.
C8_OnePassPerBurst ==
    [][/\ Called("event") =>
            \A i \in Watchers :
              Running(i) =>
                watchers'[i].armed /\ watchers'[i].timer = debounce_ms
       /\ \A i \in Watchers :
            Passed(i) =>
              /\ Called("pass")
              /\ watchers[i].burst_len >= 1
              /\ watchers[i].quiet >= debounce_ms
              /\ watchers[i].burst_log = <<>>
              /\ watchers'[i].sync_count # watchers[i].sync_count =>
                   fs'[watchers[i].dest] = [exists |-> TRUE, content |-> source]
       /\ \A i \in 1..Len(watchers') :
            LET w == watchers'[i] IN
              /\ Len(w.burst_log) <= 1
              /\ (w.state = "running" /\ w.burst_len >= 1 /\ ~w.armed
                    /\ w.quiet >= debounce_ms) =>
                   /\ Len(w.burst_log) = 1
                   /\ w.burst_log = <<"synced">> =>
                        fs'[w.dest].content = source']_vars

\* C8 witness: a burst of two events was followed by one pass, and the
\* destination holds the source
C8_Witness ==
    \E i \in Watchers :
      /\ Running(i)
      /\ watchers[i].burst_len >= 2
      /\ watchers[i].burst_log = <<"synced">>
      /\ watchers[i].sync_count = 1
      /\ fs[watchers[i].dest].content = source
      /\ source > 0

\* C9: a pass that hits an I/O error sends exactly one notification, to the
\* sync-error slot; its watcher is still running, its error count one higher
\* and its sync count unchanged; only stop_sync stops a watcher.
C9_FailedPassKeepsRunning ==
    [][/\ (Called("pass") /\ last'.fault = "io_error") =>
            /\ ui' = <<"sync_error">>
            /\ \E i \in Watchers :
                 /\ watchers'[i].state = "running"
                 /\ watchers'[i].error_count = watchers[i].error_count + 1
                 /\ watchers'[i].sync_count = watchers[i].sync_count
                 /\ \A j \in Watchers \ {i} : watchers'[j] = watchers[j]
       /\ \A i \in Watchers :
            (Running(i) /\ watchers'[i].state # "running") =>
              Called("stop_sync")]_vars

\* C9 witness: a watcher whose first pass failed and whose next burst was
\* synced is running
C9_Witness ==
    \E i \in Watchers :
      /\ Running(i)
      /\ watchers[i].error_count = 1
      /\ watchers[i].sync_count = 1
      /\ watchers[i].burst_log = <<"synced">>
      /\ last.op = "pass"
      /\ ui = <<"sync_flash">>

\* the sum over the rates the entry defines
RECURSIVE DefinedTerms(_, _, _)
DefinedTerms(pricing, u, i) ==
    IF i = 0 THEN 0
    ELSE DefinedTerms(pricing, u, i - 1)
           + (IF Categories[i] \in DOMAIN pricing
                THEN u[i] * pricing[Categories[i]] ELSE 0)

\* C2: for every model of the table calculate_cost returns, and the cost is
\* the sum over the rates its entry defines (an absent rate adds nothing).
C2_AbsentRatesCostNothing ==
    (model_id \in DOMAIN MODEL_PRICING /\ result # NoResult) =>
      /\ result.kind = "return"
      /\ result.cost = DefinedTerms(MODEL_PRICING[model_id], usage, 5)

\* C3: with zero tokens in all five categories calculate_cost returns 0 for
\* every model identifier.
C3_ZeroUsageCostsZero ==
    (result # NoResult /\ \A i \in 1..5 : usage[i] = 0) =>
      /\ result.kind = "return"
      /\ result.cost = 0

\* C4: for a model identifier that is None or not in the table calculate_cost
\* returns, and what it returns is what it returns for claude-sonnet-4-5 on
\* the same usage.
C4_UnknownModelCostsAsFallback ==
    (model_id \notin DOMAIN MODEL_PRICING /\ result # NoResult) =>
      /\ result.kind = "return"
      /\ result = calculate_cost("claude-sonnet-4-5", usage)

\* C4 witness: an unknown model was priced on a usage that costs something
C4_Witness ==
    /\ model_id = "gpt-4o"
    /\ result.kind = "return"
    /\ result.cost > 0

=============================================================================
